---- MODULE Spec2Model ----
(***************************************************************************)
(* Event router and connection manager of gcode-3d/server_v2               *)
(* (src/src/main.rs, Manager::start).                                      *)
(*                                                                         *)
(* The router is the single consumer of the distribution channel.  Every   *)
(* match arm of the loop is one action.  The device-bridge worker and the  *)
(* API worker are the two producers; their code lives in the modules       *)
(* `bridge` and `api_manager`, so they appear here only at their boundary: *)
(* what they may put on the distribution channel and what the bridge       *)
(* worker takes from the bridge-outbound channel.                          *)
(*                                                                         *)
(* Every message carries two history fields that the Rust EventInfo does   *)
(* not have: `id`, the number of the emission it descends from, and        *)
(* `origin`, who emitted it (0 = API worker, w > 0 = bridge worker w).     *)
(* The router copies both into everything it derives from a message; they  *)
(* never influence a guard.                                                *)
(***************************************************************************)
EXTENDS Naturals, Sequences, FiniteSets, TLC

VARIABLES
    bridge_thread,  \* Option<JoinHandle>: {} is None, {w} is Some(handle of task w)
    api_thread,     \* Option<JoinHandle>: {} is None, {0} is Some
    dist_chan,      \* distribution channel (dist_sender -> dist_receiver)
    bridge_chan,    \* bridge-outbound channel (bridge_sender -> bridge_receiver)
    ws_chan,        \* websocket-outbound channel (ws_sender -> ws_receiver)
    tasks,          \* spawn_blocking tasks running Bridge::start: id -> status
    aborted,        \* handles on which JoinHandle::abort() has been called
    fatal,          \* the router has panicked
    emitted,        \* number of events the two workers have produced so far
    routed,         \* history: the events the loop has dequeued, in order, each
                    \* with whether bridge_thread was Some when it was dequeued
    ws_receiver,    \* the API worker still holds the receiver of ws_chan
    storage,        \* storage.db: the rows of users, tokens and settings
    today,          \* the current date, DATE('now')
    boots,          \* number of times setup_db has run
    seed            \* history: storage.db as it was before the first run

\* the state of the persistent store and of its bootstrap
store == <<storage, today, boots, seed>>

vars == <<bridge_thread, api_thread, dist_chan, bridge_chan, ws_chan,
          tasks, aborted, fatal, emitted, routed, ws_receiver, store>>

(***************************************************************************)
(* Bounds and input sets                                                   *)
(***************************************************************************)
MaxEmit == 4
MaxBoots == 2
MaxDay == 3

Messages == {"G28", "ok"}
Errors == {"timeout"}
Addresses == {"COM3"}
Ports == {9600}
PrintInfos == {"job"}

\* bridge::BridgeState: the two values the router branches on and one it does not
BridgeState == {"CONNECTED", "DISCONNECTED", "ERRORED"}

\* api_manager::models::StateDescription: Error{message} and one opaque variant
DescError(m) == [tag |-> "Error", message |-> m]
DescNone == [tag |-> "None"]
StateDescription == {DescError(m) : m \in Errors} \cup {DescNone}

\* the (state, description) pairs a bridge worker reports
StateReports ==
    {[state |-> "CONNECTED", description |-> DescNone],
     [state |-> "DISCONNECTED", description |-> DescNone],
     [state |-> "ERRORED", description |-> DescNone]}
    \cup {[state |-> "ERRORED", description |-> DescError(m)] : m \in Errors}

\* the text remote clients send through the API worker
ClientMessages == {"G28"}

None == {}
Some(h) == {h}
is_some(o) == o # {}
is_none(o) == o = {}

(***************************************************************************)
(* EventInfo { event_type }: Bridge(BridgeEvents), Websocket(WebsocketEvents),*)
(* KILL.  `data` is the variant's fields.                                  *)
(***************************************************************************)
EventInfo(i, o, t, k, d) == [id |-> i, origin |-> o, type |-> t, kind |-> k, data |-> d]

NoData == [none |-> TRUE]

\* the fields of the BridgeEvents variants the two workers send
BridgePayloads ==
    [ConnectionCreate |-> {[address |-> a, port |-> p] : a \in Addresses, p \in Ports},
     ConnectionCreateError |-> {[error |-> e] : e \in Errors},
     TerminalRead |-> {[message |-> m] : m \in Messages},
     TerminalSend |-> {[message |-> m] : m \in ClientMessages},
     PrintEnd |-> {NoData},
     PrintStart |-> {[info |-> i] : i \in PrintInfos},
     StateUpdate |-> StateReports]

Push(chan, e) == Append(chan, e)

\* spawn_blocking: the new task waits for a thread of the blocking pool
NewTask == Cardinality(DOMAIN tasks) + 1
spawn_blocking(t) == tasks' = [w \in DOMAIN tasks \cup {t} |-> IF w = t THEN "queued" ELSE tasks[w]]

\* JoinHandle::abort on a spawn_blocking task: prevents a task that has not
\* started from starting, has no effect on one that is already running
abort(t) ==
    /\ aborted' = aborted \cup {t}
    /\ tasks' = [tasks EXCEPT ![t] = IF @ = "queued" THEN "cancelled" ELSE @]

Running == {w \in DOMAIN tasks : tasks[w] = "running"}

(***************************************************************************)
(* setup_db: the bootstrap of storage.db                                   *)
(***************************************************************************)
\* a settings row, as the VALUES (id, type, value) of the INSERT statements
Setting(id, type, value) == [id |-> id, type |-> type, value |-> value]

\* the INSERT OR IGNORE statements of setup_db, in order
Seeds ==
    <<Setting("S_devicePath", 0, "null"),
      Setting("N_deviceBaud", 2, "null"),
      Setting("B_startOnBoot", 1, "false"),
      Setting("F_adjustCorrectionF", 3, "null"),
      Setting("B_savePrinterNotifications", 1, "true"),
      Setting("B_savePrinterNotifications", 1, "true"),
      Setting("N_deviceWidth", 2, "null"),
      Setting("N_deviceHeight", 2, "null"),
      Setting("N_deviceDepth", 2, "null"),
      Setting("B_deviceHB", 1, "false"),
      Setting("B_deviceHC", 1, "false"),
      Setting("N_clientTerminalAmount", 2, "500"),
      Setting("S_sentryDsn", 0, "https://cd35379ff0fc45daa30a67bfe9aa8b36@0229745.ingest.sentry.io/5778789")>>

\* INSERT OR REPLACE in place of INSERT OR IGNORE
InsertOrReplace(table, row) == {r \in table : r.id # row.id} \cup {row}

\* INSERT OR IGNORE INTO SETTINGS: id is the primary key
InsertOrIgnore(table, row) ==
    IF \E r \in table : r.id = row.id THEN table ELSE table \cup {row}

\* the first n INSERT statements applied to the settings table
RECURSIVE SeedSettings(_, _)
SeedSettings(table, n) ==
    IF n = 0 THEN table
    ELSE InsertOrIgnore(SeedSettings(table, n - 1), Seeds[n])

\* values of the column expire: NULL, or the text of a date ('YYYY-MM-DD',
\* time "") or of a date and time ('YYYY-MM-DD HH:MM:SS')
Null == [null |-> TRUE]
DateText(day, time) == [day |-> day, time |-> time]

\* DATE('now'): the text of the current date, without a time
DateNow(day) == DateText(day, "")

\* a < b in SQL: NULL compares as NULL, which WHERE treats as false; two
\* texts compare as strings, so a date is less than the same date with a time
SqlLess(a, b) ==
    /\ a # Null
    /\ b # Null
    /\ \/ a.day < b.day
       \/ a.day = b.day /\ a.time = "" /\ b.time # ""

\* DELETE FROM tokens where expire < DATE('now')
DeleteExpired(tokens, day) == {t \in tokens : ~SqlLess(t.expire, DateNow(day))}

\* a store file that was just created: CREATE TABLE IF NOT EXISTS makes the
\* three tables, without rows
EmptyStore == [users |-> {}, tokens |-> {}, settings |-> {}]

\* the rows a store may hold before setup_db runs
StoredUsers ==
    {[username |-> "admin", password |-> "hash1", permissions |-> 1],
     [username |-> "guest", password |-> "hash2", permissions |-> 0]}

StoredTokens ==
    {[username |-> "admin", token |-> "t-null", expire |-> Null],
     [username |-> "admin", token |-> "t-yesterday", expire |-> DateText(1, "23:59:59")],
     [username |-> "admin", token |-> "t-today-date", expire |-> DateText(2, "")],
     [username |-> "guest", token |-> "t-today", expire |-> DateText(2, "08:00:00")],
     [username |-> "guest", token |-> "t-tomorrow", expire |-> DateText(3, "")]}

StoredSettings ==
    {Setting("S_devicePath", 0, "/dev/ttyUSB0"),
     Setting("N_clientTerminalAmount", 2, "100"),
     Setting("X_custom", 0, "kept")}

Stores ==
    [users : SUBSET StoredUsers, tokens : SUBSET StoredTokens, settings : SUBSET StoredSettings]

\* one run of setup_db (at process start, before Manager::new)
setup_db ==
    /\ boots < MaxBoots
    /\ boots' = boots + 1
    /\ storage' = [users |-> storage.users,
                   tokens |-> DeleteExpired(storage.tokens, today),
                   settings |-> SeedSettings(storage.settings, Len(Seeds))]
    /\ UNCHANGED <<today, seed>>
    /\ UNCHANGED <<bridge_thread, api_thread, dist_chan, bridge_chan, ws_chan,
                   tasks, aborted, fatal, emitted, routed, ws_receiver>>

\* the date changes between two starts of the process
NextDay ==
    /\ today < MaxDay
    /\ today' = today + 1
    /\ UNCHANGED <<storage, boots, seed>>
    /\ UNCHANGED <<bridge_thread, api_thread, dist_chan, bridge_chan, ws_chan,
                   tasks, aborted, fatal, emitted, routed, ws_receiver>>

(***************************************************************************)
(* Manager::new and the head of Manager::start                             *)
(***************************************************************************)
ManagerNew ==
    /\ bridge_thread = None
    /\ api_thread = None
    /\ dist_chan = <<>>
    /\ bridge_chan = <<>>
    /\ ws_chan = <<>>
    /\ tasks = <<>>
    /\ aborted = {}
    /\ fatal = FALSE
    /\ emitted = 0
    /\ routed = <<>>
    /\ ws_receiver = TRUE

\* the router is studied on a store that stays as it is
Init ==
    /\ ManagerNew
    /\ storage = EmptyStore
    /\ seed = EmptyStore
    /\ today = 2
    /\ boots = 0

\* setup_db is studied on any store, before the manager starts
DbInit ==
    /\ ManagerNew
    /\ storage \in Stores
    /\ seed = storage
    /\ today = 2
    /\ boots = 0

\* start(): the three channels are created and the API worker is launched
Start ==
    /\ is_none(api_thread)
    /\ api_thread' = Some(0)
    /\ UNCHANGED <<bridge_thread, dist_chan, bridge_chan, ws_chan, tasks, aborted, fatal, emitted, routed, ws_receiver, store>>

\* the loop `for event in dist_receiver.iter()` has an event to hand out
Receiving == is_some(api_thread) /\ ~fatal /\ dist_chan # <<>>

event == Head(dist_chan)

\* the iterator yields `event`
Dequeue == routed' = Append(routed, [event |-> event, live |-> is_some(bridge_thread)])

IsBridge(e, k) == e.type = "Bridge" /\ e.kind = k

\* a message the router derives from the one it is handling
Derived(e, t, k, d) == EventInfo(e.id, e.origin, t, k, d)

(***************************************************************************)
(* The match arms                                                          *)
(***************************************************************************)
\* ConnectionCreate without the check of lines 70-73
ConnectionCreate_unchecked ==
    /\ Receiving
    /\ Dequeue
    /\ IsBridge(event, "ConnectionCreate")
    /\ spawn_blocking(NewTask)
    /\ bridge_thread' = Some(NewTask)
    /\ dist_chan' = Tail(dist_chan)
    /\ UNCHANGED <<fatal, api_thread, ws_receiver, store, bridge_chan, ws_chan, aborted, emitted>>

ConnectionCreate ==
    /\ Receiving
    /\ Dequeue
    /\ IsBridge(event, "ConnectionCreate")
    /\ IF is_some(bridge_thread)
       THEN /\ fatal' = TRUE
            /\ dist_chan' = Tail(dist_chan)
            /\ UNCHANGED <<bridge_thread, tasks>>
       ELSE /\ spawn_blocking(NewTask)
            /\ bridge_thread' = Some(NewTask)
            /\ dist_chan' = Tail(dist_chan)
            /\ UNCHANGED fatal
    /\ UNCHANGED <<api_thread, ws_receiver, store, bridge_chan, ws_chan, aborted, emitted>>


\* ConnectionCreateError that aborts the worker but forgets line 101
ConnectionCreateError_keep ==
    /\ Receiving
    /\ Dequeue
    /\ IsBridge(event, "ConnectionCreateError")
    /\ dist_chan' = Push(Tail(dist_chan),
                         Derived(event, "Websocket", "StateUpdate",
                                 [state |-> "ERRORED",
                                  description |-> DescError(event.data.error)]))
    /\ IF is_some(bridge_thread)
       THEN /\ \E handle \in bridge_thread : abort(handle)
            /\ UNCHANGED <<bridge_thread, fatal>>
       ELSE /\ fatal' = TRUE
            /\ UNCHANGED <<bridge_thread, tasks, aborted>>
    /\ UNCHANGED <<api_thread, ws_receiver, store, bridge_chan, ws_chan, emitted>>

\* ConnectionCreateError with the `continue` of line 104 in place of the panic
ConnectionCreateError_continue ==
    /\ Receiving
    /\ Dequeue
    /\ IsBridge(event, "ConnectionCreateError")
    /\ dist_chan' = Push(Tail(dist_chan),
                         Derived(event, "Websocket", "StateUpdate",
                                 [state |-> "ERRORED",
                                  description |-> DescError(event.data.error)]))
    /\ IF is_some(bridge_thread)
       THEN /\ \E handle \in bridge_thread : abort(handle)
            /\ bridge_thread' = None
       ELSE UNCHANGED <<bridge_thread, tasks, aborted>>
    /\ UNCHANGED <<fatal, api_thread, ws_receiver, store, bridge_chan, ws_chan, emitted>>

ConnectionCreateError ==
    /\ Receiving
    /\ Dequeue
    /\ IsBridge(event, "ConnectionCreateError")
    /\ dist_chan' = Push(Tail(dist_chan),
                         Derived(event, "Websocket", "StateUpdate",
                                 [state |-> "ERRORED",
                                  description |-> DescError(event.data.error)]))
    /\ IF is_some(bridge_thread)
       THEN /\ \E handle \in bridge_thread : abort(handle)
            /\ bridge_thread' = None
            /\ UNCHANGED fatal
       ELSE /\ fatal' = TRUE
            /\ UNCHANGED <<bridge_thread, tasks, aborted>>
    /\ UNCHANGED <<api_thread, ws_receiver, store, bridge_chan, ws_chan, emitted>>


\* TerminalRead gated on the session like TerminalSend
TerminalRead_gated ==
    /\ Receiving
    /\ Dequeue
    /\ IsBridge(event, "TerminalRead")
    /\ IF is_none(bridge_thread)
       THEN dist_chan' = Tail(dist_chan)
       ELSE dist_chan' = Push(Tail(dist_chan),
                              Derived(event, "Websocket", "TerminalRead",
                                      [message |-> event.data.message]))
    /\ UNCHANGED <<bridge_thread, api_thread, ws_receiver, store, bridge_chan, ws_chan, tasks, aborted, fatal, emitted>>

\* TerminalRead with its mirror sent on ws_sender, not re-queued on dist_sender
TerminalRead_direct ==
    /\ Receiving
    /\ Dequeue
    /\ IsBridge(event, "TerminalRead")
    /\ ws_chan' = Push(ws_chan,
                       Derived(event, "Websocket", "TerminalRead",
                               [message |-> event.data.message]))
    /\ dist_chan' = Tail(dist_chan)
    /\ UNCHANGED <<bridge_thread, api_thread, ws_receiver, store, bridge_chan, tasks, aborted, fatal, emitted>>

TerminalRead ==
    /\ Receiving
    /\ Dequeue
    /\ IsBridge(event, "TerminalRead")
    /\ dist_chan' = Push(Tail(dist_chan),
                         Derived(event, "Websocket", "TerminalRead",
                                 [message |-> event.data.message]))
    /\ UNCHANGED <<bridge_thread, api_thread, ws_receiver, store, bridge_chan, ws_chan, tasks, aborted, fatal, emitted>>


\* TerminalSend without the mirror of lines 132-138
TerminalSend_unmirrored ==
    /\ Receiving
    /\ Dequeue
    /\ IsBridge(event, "TerminalSend")
    /\ IF is_none(bridge_thread)
       THEN UNCHANGED bridge_chan
       ELSE bridge_chan' = Push(bridge_chan,
                                Derived(event, "Bridge", "TerminalSend",
                                        [message |-> event.data.message]))
    /\ dist_chan' = Tail(dist_chan)
    /\ UNCHANGED <<bridge_thread, api_thread, ws_receiver, store, ws_chan, tasks, aborted, fatal, emitted>>

TerminalSend ==
    /\ Receiving
    /\ Dequeue
    /\ IsBridge(event, "TerminalSend")
    /\ IF is_none(bridge_thread)
       THEN /\ dist_chan' = Tail(dist_chan)
            /\ UNCHANGED bridge_chan
       ELSE /\ bridge_chan' = Push(bridge_chan,
                                   Derived(event, "Bridge", "TerminalSend",
                                           [message |-> event.data.message]))
            /\ dist_chan' = Push(Tail(dist_chan),
                                 Derived(event, "Websocket", "TerminalSend",
                                         [message |-> event.data.message]))
    /\ UNCHANGED <<bridge_thread, api_thread, ws_receiver, store, ws_chan, tasks, aborted, fatal, emitted>>

PrintEnd ==
    /\ Receiving
    /\ Dequeue
    /\ IsBridge(event, "PrintEnd")
    /\ bridge_chan' = Push(bridge_chan, Derived(event, "Bridge", "PrintEnd", NoData))
    /\ dist_chan' = Tail(dist_chan)
    /\ UNCHANGED <<bridge_thread, api_thread, ws_receiver, store, ws_chan, tasks, aborted, fatal, emitted>>


\* PrintStart without the gate of lines 150-152
PrintStart_ungated ==
    /\ Receiving
    /\ Dequeue
    /\ IsBridge(event, "PrintStart")
    /\ bridge_chan' = Push(bridge_chan,
                           Derived(event, "Bridge", "PrintStart", [info |-> event.data.info]))
    /\ dist_chan' = Tail(dist_chan)
    /\ UNCHANGED <<bridge_thread, api_thread, ws_receiver, store, ws_chan, tasks, aborted, fatal, emitted>>

PrintStart ==
    /\ Receiving
    /\ Dequeue
    /\ IsBridge(event, "PrintStart")
    /\ IF is_none(bridge_thread)
       THEN UNCHANGED bridge_chan
       ELSE bridge_chan' = Push(bridge_chan,
                                Derived(event, "Bridge", "PrintStart",
                                        [info |-> event.data.info]))
    /\ dist_chan' = Tail(dist_chan)
    /\ UNCHANGED <<bridge_thread, api_thread, ws_receiver, store, ws_chan, tasks, aborted, fatal, emitted>>

\* the test of line 169 with ERRORED left out
Terminal_disconnected(state) == state = "DISCONNECTED"

\* the test of line 169 with != for ==, true of every state
Terminal_unequal(state) == state # "DISCONNECTED" \/ state # "ERRORED"

Terminal(state) == state = "DISCONNECTED" \/ state = "ERRORED"


\* StateUpdate that sends KILL but forgets the take() of line 173
StateUpdate_untaken ==
    /\ Receiving
    /\ Dequeue
    /\ IsBridge(event, "StateUpdate")
    /\ IF is_none(bridge_thread)
       THEN /\ dist_chan' = Tail(dist_chan)
            /\ UNCHANGED bridge_chan
       ELSE /\ IF Terminal(event.data.state)
               THEN bridge_chan' = Push(bridge_chan, Derived(event, "KILL", "KILL", NoData))
               ELSE bridge_chan' = Push(bridge_chan,
                                        Derived(event, "Bridge", "StateUpdate",
                                                [state |-> event.data.state,
                                                 description |-> event.data.description]))
            /\ dist_chan' = Push(Tail(dist_chan),
                                 Derived(event, "Websocket", "StateUpdate",
                                         [state |-> event.data.state,
                                          description |-> event.data.description]))
    /\ UNCHANGED <<bridge_thread, api_thread, ws_receiver, store, ws_chan, tasks, aborted, fatal, emitted>>

\* StateUpdate without the gate of lines 165-167
StateUpdate_ungated ==
    /\ Receiving
    /\ Dequeue
    /\ IsBridge(event, "StateUpdate")
    /\ IF Terminal(event.data.state)
       THEN /\ bridge_chan' = Push(bridge_chan, Derived(event, "KILL", "KILL", NoData))
            /\ bridge_thread' = None
       ELSE /\ bridge_chan' = Push(bridge_chan,
                                   Derived(event, "Bridge", "StateUpdate",
                                           [state |-> event.data.state,
                                            description |-> event.data.description]))
            /\ UNCHANGED bridge_thread
    /\ dist_chan' = Push(Tail(dist_chan),
                         Derived(event, "Websocket", "StateUpdate",
                                 [state |-> event.data.state,
                                  description |-> event.data.description]))
    /\ UNCHANGED <<api_thread, ws_receiver, store, ws_chan, tasks, aborted, fatal, emitted>>

StateUpdate ==
    /\ Receiving
    /\ Dequeue
    /\ IsBridge(event, "StateUpdate")
    /\ IF is_none(bridge_thread)
       THEN /\ dist_chan' = Tail(dist_chan)
            /\ UNCHANGED <<bridge_thread, bridge_chan>>
       ELSE /\ IF Terminal(event.data.state)
               THEN /\ bridge_chan' = Push(bridge_chan, Derived(event, "KILL", "KILL", NoData))
                    /\ bridge_thread' = None
               ELSE /\ bridge_chan' = Push(bridge_chan,
                                           Derived(event, "Bridge", "StateUpdate",
                                                   [state |-> event.data.state,
                                                    description |-> event.data.description]))
                    /\ UNCHANGED bridge_thread
            /\ dist_chan' = Push(Tail(dist_chan),
                                 Derived(event, "Websocket", "StateUpdate",
                                         [state |-> event.data.state,
                                          description |-> event.data.description]))
    /\ UNCHANGED <<api_thread, ws_receiver, store, ws_chan, tasks, aborted, fatal, emitted>>

\* the Websocket arm with the result of the send discarded, as for KILL
Websocket_unchecked ==
    /\ Receiving
    /\ Dequeue
    /\ event.type = "Websocket"
    /\ IF ws_receiver
       THEN ws_chan' = Push(ws_chan, Derived(event, "Websocket", event.kind, event.data))
       ELSE UNCHANGED ws_chan
    /\ dist_chan' = Tail(dist_chan)
    /\ UNCHANGED <<bridge_thread, api_thread, ws_receiver, store, bridge_chan, tasks, aborted, fatal, emitted>>

\* the Websocket arm gated on the session like the command arms
Websocket_gated ==
    /\ Receiving
    /\ Dequeue
    /\ event.type = "Websocket"
    /\ IF is_none(bridge_thread)
       THEN UNCHANGED <<ws_chan, fatal>>
       ELSE IF ws_receiver
            THEN /\ ws_chan' = Push(ws_chan, Derived(event, "Websocket", event.kind, event.data))
                 /\ UNCHANGED fatal
            ELSE /\ fatal' = TRUE
                 /\ UNCHANGED ws_chan
    /\ dist_chan' = Tail(dist_chan)
    /\ UNCHANGED <<bridge_thread, api_thread, ws_receiver, store, bridge_chan, tasks, aborted, emitted>>

\* send fails when every receiver of the channel is gone; expect() then panics
Websocket ==
    /\ Receiving
    /\ Dequeue
    /\ event.type = "Websocket"
    /\ IF ws_receiver
       THEN /\ ws_chan' = Push(ws_chan, Derived(event, "Websocket", event.kind, event.data))
            /\ UNCHANGED fatal
       ELSE /\ fatal' = TRUE
            /\ UNCHANGED ws_chan
    /\ dist_chan' = Tail(dist_chan)
    /\ UNCHANGED <<bridge_thread, api_thread, ws_receiver, store, bridge_chan, tasks, aborted, emitted>>

\* KILL arriving at the router treated as a request to end the session
Ignored_kills ==
    /\ Receiving
    /\ Dequeue
    /\ event.type = "KILL"
    /\ IF is_some(bridge_thread)
       THEN /\ bridge_chan' = Push(bridge_chan, Derived(event, "KILL", "KILL", NoData))
            /\ bridge_thread' = None
       ELSE UNCHANGED <<bridge_thread, bridge_chan>>
    /\ dist_chan' = Tail(dist_chan)
    /\ UNCHANGED <<api_thread, ws_receiver, store, ws_chan, tasks, aborted, fatal, emitted>>

\* `_ => ()`: KILL arriving at the router
Ignored ==
    /\ Receiving
    /\ Dequeue
    /\ event.type = "KILL"
    /\ dist_chan' = Tail(dist_chan)
    /\ UNCHANGED <<bridge_thread, api_thread, ws_receiver, store, bridge_chan, ws_chan, tasks, aborted, fatal, emitted>>

Router ==
    \/ ConnectionCreate
    \/ ConnectionCreateError
    \/ TerminalRead
    \/ TerminalSend
    \/ PrintEnd
    \/ PrintStart
    \/ StateUpdate
    \/ Websocket
    \/ Ignored

(***************************************************************************)
(* The two producers, at their boundary                                    *)
(***************************************************************************)
\* what the API worker puts on the distribution channel
ApiEvents ==
    {[type |-> "Bridge", kind |-> k, data |-> d] :
        k \in {"ConnectionCreate"}, d \in BridgePayloads.ConnectionCreate}
    \cup {[type |-> "Bridge", kind |-> "ConnectionCreateError", data |-> d] :
        d \in BridgePayloads.ConnectionCreateError}
    \cup {[type |-> "Bridge", kind |-> "TerminalSend", data |-> d] :
        d \in BridgePayloads.TerminalSend}
    \cup {[type |-> "Bridge", kind |-> "PrintStart", data |-> d] :
        d \in BridgePayloads.PrintStart}
    \cup {[type |-> "Bridge", kind |-> "PrintEnd", data |-> NoData]}
    \cup {[type |-> "Websocket", kind |-> "TerminalSend", data |-> d] :
        d \in {[message |-> m] : m \in ClientMessages}}
    \cup {[type |-> "KILL", kind |-> "KILL", data |-> NoData]}

\* what a bridge worker puts on the distribution channel
BridgeWorkerEvents ==
    {[type |-> "Bridge", kind |-> "TerminalRead", data |-> d] :
        d \in BridgePayloads.TerminalRead}
    \cup {[type |-> "Bridge", kind |-> "StateUpdate", data |-> d] :
        d \in BridgePayloads.StateUpdate}

Emit(o, e) ==
    /\ emitted < MaxEmit
    /\ emitted' = emitted + 1
    /\ dist_chan' = Push(dist_chan, EventInfo(emitted + 1, o, e.type, e.kind, e.data))

\* ApiManager::start(dist_sender_clone, ws_receiver) sends an event
ApiSend ==
    /\ is_some(api_thread)
    /\ ws_receiver
    /\ \E e \in ApiEvents : Emit(0, e)
    /\ UNCHANGED <<bridge_thread, api_thread, ws_receiver, store, bridge_chan, ws_chan, tasks, aborted, fatal, routed>>

\* the blocking pool starts the closure: Bridge::new, then bridge.start()
BridgeStart ==
    /\ \E w \in DOMAIN tasks :
        /\ tasks[w] = "queued"
        /\ tasks' = [tasks EXCEPT ![w] = "running"]
    /\ UNCHANGED <<bridge_thread, api_thread, ws_receiver, store, dist_chan, bridge_chan, ws_chan, aborted, fatal, emitted, routed>>

\* a running bridge worker sends an event through its dist_sender clone
BridgeSend ==
    /\ \E w \in Running : \E e \in BridgeWorkerEvents : Emit(w, e)
    /\ UNCHANGED <<bridge_thread, api_thread, ws_receiver, store, bridge_chan, ws_chan, tasks, aborted, fatal, routed>>

\* a running bridge worker takes the next message of its bridge_receiver
\* clone; KILL ends the worker
BridgeRecv ==
    /\ bridge_chan # <<>>
    /\ \E w \in Running :
        tasks' = [tasks EXCEPT ![w] = IF Head(bridge_chan).type = "KILL" THEN "finished" ELSE @]
    /\ bridge_chan' = Tail(bridge_chan)
    /\ UNCHANGED <<bridge_thread, api_thread, ws_receiver, store, dist_chan, ws_chan, aborted, fatal, emitted, routed>>

\* the future ApiManager::start ends and drops its dist_sender and ws_receiver;
\* the exit is the last step of the API worker and counts among the worker
\* steps that MaxEmit bounds
ApiStop ==
    /\ is_some(api_thread)
    /\ ws_receiver
    /\ emitted < MaxEmit
    /\ emitted' = emitted + 1
    /\ ws_receiver' = FALSE
    /\ UNCHANGED <<bridge_thread, api_thread, dist_chan, bridge_chan, ws_chan,
                   tasks, aborted, fatal, routed, store>>

Next ==
    \/ Start
    \/ ConnectionCreate
    \/ ConnectionCreateError
    \/ TerminalRead
    \/ TerminalSend
    \/ PrintEnd
    \/ PrintStart
    \/ StateUpdate
    \/ Websocket
    \/ Ignored
    \/ ApiSend
    \/ BridgeStart
    \/ BridgeSend
    \/ BridgeRecv

\* normal operation: the API worker lives as long as the process
Spec == Init /\ [][Next]_vars

\* the thread of the router is scheduled fairly: an iteration of the loop
\* that can run does run (the producers are under no such obligation)
FairSpec == Spec /\ WF_vars(Start) /\ WF_vars(Router)

\* operation in which the API worker may end
ShutdownNext ==
    \/ Start
    \/ ConnectionCreate
    \/ ConnectionCreateError
    \/ TerminalRead
    \/ TerminalSend
    \/ PrintEnd
    \/ PrintStart
    \/ StateUpdate
    \/ Websocket
    \/ Ignored
    \/ ApiSend
    \/ ApiStop
    \/ BridgeStart
    \/ BridgeSend
    \/ BridgeRecv

ShutdownSpec == Init /\ [][ShutdownNext]_vars

\* the bootstrap, run at each start of the process
DbNext ==
    \/ setup_db
    \/ NextDay

DbSpec == DbInit /\ [][DbNext]_vars

TypeOK ==
    /\ Cardinality(bridge_thread) <= 1
    /\ bridge_thread \subseteq DOMAIN tasks
    /\ api_thread \in {None, Some(0)}
    /\ fatal \in BOOLEAN
    /\ emitted \in 0..MaxEmit
    /\ aborted \subseteq DOMAIN tasks
    /\ \A w \in DOMAIN tasks : tasks[w] \in {"queued", "running", "cancelled", "finished"}
    /\ ws_receiver \in BOOLEAN
    /\ storage \in [users : SUBSET StoredUsers, tokens : SUBSET StoredTokens,
                     settings : SUBSET (StoredSettings \cup {Seeds[n] : n \in 1..Len(Seeds)})]
    /\ today \in 2..MaxDay
    /\ boots \in 0..MaxBoots

(***************************************************************************)
(* Vocabulary of the properties                                            *)
(***************************************************************************)
\* this step is one iteration of the router's loop, handling `event`
Handled == routed' # routed
HandledBridge(k) == Handled /\ IsBridge(event, k)

\* the messages of a channel that descend from emission i and have type t
Count(chan, i, t) == Cardinality({n \in 1..Len(chan) : chan[n].id = i /\ chan[n].type = t})

\* the tasks a step has created
Spawned == DOMAIN tasks' \ DOMAIN tasks

\* C1 (P1, mutual exclusion): bridge_thread never holds more than one
\* handle; a ConnectionCreate dequeued while bridge_thread is Some makes the
\* router fatal, spawns no worker and keeps the stored handle; one dequeued
\* while bridge_thread is None spawns exactly one worker and stores its handle.
C1_MutualExclusion ==
    [][ /\ Cardinality(bridge_thread') <= 1
        /\ HandledBridge("ConnectionCreate") /\ is_some(bridge_thread) =>
              /\ fatal'
              /\ Spawned = {}
              /\ bridge_thread' = bridge_thread
              /\ tasks' = tasks
        /\ HandledBridge("ConnectionCreate") /\ is_none(bridge_thread) =>
              /\ ~fatal'
              /\ Cardinality(Spawned) = 1
              /\ bridge_thread' = Spawned
              /\ \A w \in DOMAIN tasks : tasks'[w] = tasks[w]
      ]_vars

\* a session was created and a second ConnectionCreate found it live
C1_Witness ==
    /\ fatal
    /\ is_some(bridge_thread)
    /\ Len(routed) >= 2
    /\ IsBridge(routed[Len(routed)].event, "ConnectionCreate")
    /\ routed[Len(routed)].live

\* C2: in every reachable state at most one device-bridge worker is running
C2_OneWorkerRunning == Cardinality(Running) <= 1
\* the entries of the history that satisfy P(event, live)
RoutedWhere(P(_, _)) == {k \in 1..Len(routed) : P(routed[k].event, routed[k].live)}

\* chan' is chan with exactly the message m appended
Appends(chan, chanNext, m) == chanNext = Append(chan, m)

\* the step takes `event` off the distribution channel and puts nothing back
DropsFromDist == dist_chan' = Tail(dist_chan)

\* the step takes `event` off the distribution channel and queues exactly one
\* Websocket message of kind k with fields d behind what is left
MirrorsToDist(k, d) ==
    /\ Len(dist_chan') = Len(dist_chan)
    /\ SubSeq(dist_chan', 1, Len(dist_chan) - 1) = Tail(dist_chan)
    /\ LET m == dist_chan'[Len(dist_chan')] IN
         m.type = "Websocket" /\ m.kind = k /\ m.data = d

\* the step puts exactly one message of type t, kind k and fields d on bridge-outbound
SendsToBridge(t, k, d) ==
    /\ Len(bridge_chan') = Len(bridge_chan) + 1
    /\ SubSeq(bridge_chan', 1, Len(bridge_chan)) = bridge_chan
    /\ LET m == bridge_chan'[Len(bridge_chan')] IN
         m.type = t /\ m.kind = k /\ m.data = d

\* the mirror of the routed event e: exactly one Websocket message of kind k
\* and fields d descends from e, and it is on the distribution channel or on
\* websocket-outbound
MirrorInFlight(e, k, d) ==
    /\ Count(dist_chan, e.id, "Websocket") + Count(ws_chan, e.id, "Websocket") = 1
    /\ \A n \in 1..Len(dist_chan) :
          dist_chan[n].id = e.id /\ dist_chan[n].type = "Websocket" =>
              dist_chan[n].kind = k /\ dist_chan[n].data = d
    /\ \A n \in 1..Len(ws_chan) :
          ws_chan[n].id = e.id => ws_chan[n].kind = k /\ ws_chan[n].data = d

\* the mirror of the routed event e has reached websocket-outbound, once
MirrorDelivered(e, k, d) ==
    /\ Count(ws_chan, e.id, "Websocket") = 1
    /\ \A n \in 1..Len(ws_chan) :
          ws_chan[n].id = e.id => ws_chan[n].kind = k /\ ws_chan[n].data = d

TerminalUpdateLive(e, live) ==
    live /\ IsBridge(e, "StateUpdate") /\ e.data.state \in {"DISCONNECTED", "ERRORED"}

TeardownMirrorsInFlight ==
    \A k \in RoutedWhere(TerminalUpdateLive) :
        MirrorInFlight(routed[k].event, "StateUpdate", routed[k].event.data)

C4_CommandGating ==
    [][ /\ (HandledBridge("TerminalSend") \/ HandledBridge("PrintStart")) /\ is_none(bridge_thread) =>
              /\ bridge_chan' = bridge_chan
              /\ ws_chan' = ws_chan
              /\ DropsFromDist
              /\ bridge_thread' = None
              /\ ~fatal'
        /\ HandledBridge("PrintEnd") =>
              /\ SendsToBridge("Bridge", "PrintEnd", NoData)
              /\ DropsFromDist
              /\ ws_chan' = ws_chan
              /\ bridge_thread' = bridge_thread
      ]_vars

GatedDropped(e, live) == ~live /\ (IsBridge(e, "TerminalSend") \/ IsBridge(e, "PrintStart"))
PrintEndIdle(e, live) == ~live /\ IsBridge(e, "PrintEnd")
PrintEndLive(e, live) == live /\ IsBridge(e, "PrintEnd")

\* a gated command was dropped and PrintEnd went through with and without a session
C4_Witness ==
    /\ RoutedWhere(GatedDropped) # {}
    /\ RoutedWhere(PrintEndIdle) # {}
    /\ RoutedWhere(PrintEndLive) # {}

\* C5 (I3): TerminalSend, PrintStart and PrintEnd reach bridge-outbound only
\* while bridge_thread is Some; dequeued while it is None each of them is
\* dropped without an error.
C5_CommandsOnlyWhileLive ==
    [][ (HandledBridge("TerminalSend") \/ HandledBridge("PrintStart") \/ HandledBridge("PrintEnd"))
        /\ is_none(bridge_thread) =>
              /\ bridge_chan' = bridge_chan
              /\ ~fatal'
      ]_vars

AnyTerminalRead(e, live) == IsBridge(e, "TerminalRead")

ReadMirrorsInFlight ==
    \A k \in RoutedWhere(AnyTerminalRead) :
        MirrorInFlight(routed[k].event, "TerminalRead", routed[k].event.data)

ReadIdle(e, live) == ~live /\ IsBridge(e, "TerminalRead")
ReadLive(e, live) == live /\ IsBridge(e, "TerminalRead")

SendLive(e, live) == live /\ IsBridge(e, "TerminalSend")

SendMirrorsInFlight ==
    \A k \in RoutedWhere(SendLive) :
        MirrorInFlight(routed[k].event, "TerminalSend", routed[k].event.data)

C8_ErrorRecovered ==
    [][ HandledBridge("ConnectionCreateError") /\ is_some(bridge_thread) =>
              /\ aborted' = aborted \cup bridge_thread
              /\ bridge_thread' = None
              /\ MirrorsToDist("StateUpdate",
                               [state |-> "ERRORED", description |-> DescError(event.data.error)])
              /\ bridge_chan' = bridge_chan
              /\ ws_chan' = ws_chan
              /\ Spawned = {}
              /\ ~fatal'
              /\ Receiving'
      ]_vars

ErrorLive(e, live) == live /\ IsBridge(e, "ConnectionCreateError")

\* a session was aborted on ConnectionCreateError and the router served the
\* events that followed
C8_Witness ==
    \E k \in RoutedWhere(ErrorLive) :
        /\ k + 2 <= Len(routed)
        /\ ~fatal
        /\ aborted # {}

\* C9: a ConnectionCreateError dequeued while bridge_thread is None makes the
\* router fatal, leaves bridge_thread None and spawns and aborts no worker; a
\* fatal router dequeues nothing, sends nothing and keeps its state.
C9_ErrorWithoutSessionFatal ==
    [][ /\ HandledBridge("ConnectionCreateError") /\ is_none(bridge_thread) =>
              /\ fatal'
              /\ bridge_thread' = None
              /\ tasks' = tasks
              /\ aborted' = aborted
        /\ fatal =>
              /\ fatal'
              /\ routed' = routed
              /\ bridge_thread' = bridge_thread
              /\ ws_chan' = ws_chan
              /\ Len(dist_chan') >= Len(dist_chan)
              /\ Len(bridge_chan') <= Len(bridge_chan)
              /\ Spawned = {}
              /\ aborted' = aborted
      ]_vars

\* the router stopped on a ConnectionCreateError without a session and later
\* events wait on the distribution channel
C9_Witness ==
    /\ fatal
    /\ is_none(bridge_thread)
    /\ IsBridge(routed[Len(routed)].event, "ConnectionCreateError")
    /\ ~routed[Len(routed)].live
    /\ \E n \in 1..Len(dist_chan) : dist_chan[n].id > routed[Len(routed)].event.id

\* the step tears the session down
Teardown ==
    /\ Handled
    /\ is_some(bridge_thread)
    /\ \/ IsBridge(event, "ConnectionCreateError")
       \/ IsBridge(event, "StateUpdate") /\ event.data.state \in {"DISCONNECTED", "ERRORED"}

\* C10: the connection state machine cycles.  A teardown (terminal
\* StateUpdate or ConnectionCreateError while bridge_thread is Some) leaves a
\* non-fatal router with bridge_thread None; bridge_thread leaves None only
\* by a ConnectionCreate; and whenever bridge_thread is None, however many
\* sessions came before, the next ConnectionCreate dequeued is accepted and
\* creates a session.
C10_SessionCycle ==
    [][ /\ Teardown => is_none(bridge_thread') /\ ~fatal'
        /\ is_none(bridge_thread) /\ is_some(bridge_thread') => HandledBridge("ConnectionCreate")
        /\ HandledBridge("ConnectionCreate") /\ is_none(bridge_thread) =>
              /\ is_some(bridge_thread')
              /\ ~fatal'
              /\ Cardinality(DOMAIN tasks') = Cardinality(DOMAIN tasks) + 1
      ]_vars

TornDownByUpdate(e, live) == TerminalUpdateLive(e, live)

\* two sessions were torn down, one each way, and a session was created
\* after a teardown
C10_Witness ==
    /\ RoutedWhere(TornDownByUpdate) # {}
    /\ RoutedWhere(ErrorLive) # {}
    /\ Cardinality(DOMAIN tasks) >= 2
    /\ ~fatal
(***************************************************************************)
(* The bootstrap of the store                                              *)
(***************************************************************************)
\* the keys the settings table is documented to be seeded with
DocumentedKeys ==
    {"S_devicePath", "N_deviceBaud", "B_startOnBoot", "F_adjustCorrectionF",
     "B_savePrinterNotifications", "N_deviceWidth", "N_deviceHeight", "N_deviceDepth",
     "B_deviceHB", "B_deviceHC", "N_clientTerminalAmount", "S_sentryDsn"}

Ids(table) == {r.id : r \in table}

AnyError(e, live) == IsBridge(e, "ConnectionCreateError")

\* the router has dequeued the ConnectionCreateError of emission i
ErrorRouted(i) == \E k \in RoutedWhere(AnyError) : routed[k].event.id = i

\* Websocket.StateUpdate{ERRORED, Error{error}} of the ConnectionCreateError
\* of emission i is on websocket-outbound
ErrorSurfaced(i) ==
    \E k \in RoutedWhere(AnyError) :
        /\ routed[k].event.id = i
        /\ MirrorDelivered(routed[k].event, "StateUpdate",
                           [state |-> "ERRORED",
                            description |-> DescError(routed[k].event.data.error)])

\* C12: with the router scheduled fairly, every ConnectionCreateError{error}
\* the router dequeues, bridge_thread being Some or None, is eventually
\* followed by Websocket.StateUpdate{ERRORED, Error{error}} on
\* websocket-outbound.
C12_ErrorSurfaced == \A i \in 1..MaxEmit : ErrorRouted(i) ~> ErrorSurfaced(i)

(***************************************************************************)
(* Sessions and the workers of earlier sessions                            *)
(***************************************************************************)
\* the router handles a terminal StateUpdate that a bridge worker sent whose
\* session is over, while the session of a later worker is stored
StaleTerminalUpdate ==
    /\ HandledBridge("StateUpdate")
    /\ Terminal(event.data.state)
    /\ event.origin \in DOMAIN tasks
    /\ is_some(bridge_thread)
    /\ \A handle \in bridge_thread : event.origin < handle

\* C13: a terminal StateUpdate sent by the worker of an earlier session and
\* dequeued after a later session was created puts no KILL on bridge-outbound
\* and leaves bridge_thread, the handle of the later session, as it is.
C13_StaleUpdateHarmless ==
    [][ StaleTerminalUpdate =>
            /\ bridge_thread' = bridge_thread
            /\ ~SendsToBridge("KILL", "KILL", NoData)
      ]_vars

\* C14: at the moment a ConnectionCreate spawns a worker, bridge-outbound
\* holds nothing the router sent earlier: no KILL of a previous teardown and
\* no PrintEnd or other command forwarded before this session.
C14_FreshBridgeChannel ==
    [][ HandledBridge("ConnectionCreate") /\ Spawned # {} =>
            \A n \in 1..Len(bridge_chan') :
                /\ bridge_chan'[n].type # "KILL"
                /\ bridge_chan'[n].type # "Bridge"
      ]_vars

(***************************************************************************)
(* StateUpdate without and with a session                                  *)
(***************************************************************************)
UpdateIdle(e, live) == ~live /\ IsBridge(e, "StateUpdate")

\* nothing descends from a StateUpdate that was dequeued without a session
IdleUpdatesSilent ==
    \A k \in RoutedWhere(UpdateIdle) :
        /\ Count(dist_chan, routed[k].event.id, "Websocket") = 0
        /\ Count(ws_chan, routed[k].event.id, "Websocket") = 0
        /\ \A n \in 1..Len(bridge_chan) : bridge_chan[n].id # routed[k].event.id

\* C15: a StateUpdate dequeued while bridge_thread is None, whatever its
\* state, is dropped: the step only takes it off the distribution channel
\* (no KILL and no echo on bridge-outbound, no Websocket.StateUpdate queued
\* or delivered, bridge_thread still None, router not fatal), and nothing
\* descending from it ever shows up on a channel later.
C15_UpdateDroppedWithoutSession ==
    [][ /\ HandledBridge("StateUpdate") /\ is_none(bridge_thread) =>
              /\ bridge_chan' = bridge_chan
              /\ DropsFromDist
              /\ ws_chan' = ws_chan
              /\ bridge_thread' = None
              /\ Spawned = {}
              /\ ~fatal'
        /\ IdleUpdatesSilent'
      ]_vars

\* a terminal StateUpdate cleared the session and the next event dequeued
\* was a second terminal StateUpdate; a CONNECTED one was dropped as well
C15_Witness ==
    /\ \E k \in RoutedWhere(TerminalUpdateLive) :
          /\ k + 1 \in RoutedWhere(UpdateIdle)
          /\ Terminal(routed[k + 1].event.data.state)
    /\ \E k \in RoutedWhere(UpdateIdle) : routed[k].event.data.state = "CONNECTED"

UpdateLive(e, live) ==
    live /\ IsBridge(e, "StateUpdate") /\ e.data.state \notin {"DISCONNECTED", "ERRORED"}

UpdateMirrorsInFlight ==
    \A k \in RoutedWhere(UpdateLive) :
        MirrorInFlight(routed[k].event, "StateUpdate", routed[k].event.data)

\* C16: a StateUpdate with a state other than DISCONNECTED and ERRORED
\* dequeued while bridge_thread is Some puts exactly one StateUpdate with the
\* same state and description, and no KILL, on bridge-outbound, leaves
\* bridge_thread as it is and queues exactly one Websocket.StateUpdate with
\* the same state and description for websocket-outbound; that message is
\* never duplicated or altered on its way there.
C16_UpdateEchoed ==
    [][ /\ Handled /\ UpdateLive(event, is_some(bridge_thread)) =>
              /\ SendsToBridge("Bridge", "StateUpdate", event.data)
              /\ bridge_thread' = bridge_thread
              /\ MirrorsToDist("StateUpdate", event.data)
              /\ ws_chan' = ws_chan
              /\ Spawned = {}
              /\ ~fatal'
        /\ UpdateMirrorsInFlight'
      ]_vars

\* a CONNECTED StateUpdate was echoed to the worker of a session that is
\* still stored, and its Websocket.StateUpdate is on websocket-outbound
C16_Witness ==
    \E k \in RoutedWhere(UpdateLive) :
        /\ routed[k].event.data.state = "CONNECTED"
        /\ MirrorDelivered(routed[k].event, "StateUpdate", routed[k].event.data)
        /\ \E n \in 1..Len(bridge_chan) :
              /\ bridge_chan[n].id = routed[k].event.id
              /\ bridge_chan[n].kind = "StateUpdate"
        /\ is_some(bridge_thread)

(***************************************************************************)
(* The Websocket arm                                                       *)
(***************************************************************************)
IsWebsocket(e) == e.type = "Websocket"

\* the events the router has dequeued, in order
RoutedEvents == [k \in 1..Len(routed) |-> routed[k].event]

\* websocket-outbound holds the Websocket events the router has dequeued,
\* each as it was dequeued, once, and nothing else
WebsocketForwarded == ws_chan = SelectSeq(RoutedEvents, IsWebsocket)

KillLive(e, live) == live /\ e.type = "KILL"

\* C18: bridge_thread changes only when the router handles a
\* ConnectionCreate (None to Some), a ConnectionCreateError (Some to None)
\* or a StateUpdate with DISCONNECTED or ERRORED (Some to None), so every
\* other event leaves it alone; a KILL arriving at the router is taken off
\* the distribution channel and nothing else happens; api_thread is set once,
\* at start, and never changes afterwards.
C18_SessionFrame ==
    [][ /\ bridge_thread' # bridge_thread =>
              /\ Handled
              /\ \/ /\ IsBridge(event, "ConnectionCreate")
                    /\ is_none(bridge_thread) /\ is_some(bridge_thread')
                 \/ /\ IsBridge(event, "ConnectionCreateError")
                    /\ is_some(bridge_thread) /\ is_none(bridge_thread')
                 \/ /\ IsBridge(event, "StateUpdate")
                    /\ event.data.state \in {"DISCONNECTED", "ERRORED"}
                    /\ is_some(bridge_thread) /\ is_none(bridge_thread')
        /\ Handled /\ event.type = "KILL" =>
              /\ DropsFromDist
              /\ bridge_chan' = bridge_chan
              /\ ws_chan' = ws_chan
              /\ bridge_thread' = bridge_thread
              /\ Spawned = {}
              /\ aborted' = aborted
              /\ ~fatal'
        /\ api_thread' # api_thread => is_none(api_thread) /\ ~Handled
        /\ Handled => is_some(api_thread) /\ api_thread' = api_thread
      ]_vars

\* a KILL arrived at the router during a session, the session is still
\* stored and the router went on to the next event
C18_Witness ==
    \E k \in RoutedWhere(KillLive) :
        /\ k < Len(routed)
        /\ routed[k + 1].live
        /\ is_some(bridge_thread)
        /\ ~fatal

(***************************************************************************)
(* Order of the mirrors                                                    *)
(***************************************************************************)
\* the events for which the router queues a Websocket mirror
MirrorSource(e, live) ==
    \/ IsBridge(e, "TerminalRead")
    \/ IsBridge(e, "ConnectionCreateError")
    \/ live /\ IsBridge(e, "TerminalSend")
    \/ live /\ IsBridge(e, "StateUpdate")

\* the places on websocket-outbound of the messages that descend from emission i
Places(i) == {n \in 1..Len(ws_chan) : ws_chan[n].id = i}

\* C19 (mirror ordering): if the router dequeued the bridge events e1 and e2
\* in that order, each producing a mirror, and the mirror of e2 is on
\* websocket-outbound, then the mirror of e1 is there too, ahead of it.
C19_MirrorOrder ==
    \A k1, k2 \in RoutedWhere(MirrorSource) :
        k1 < k2 =>
            \A n2 \in Places(routed[k2].event.id) :
                /\ Places(routed[k1].event.id) # {}
                /\ \A n1 \in Places(routed[k1].event.id) : n1 < n2

\* the mirrors of a StateUpdate and of a later TerminalRead were delivered
\* with the message of a remote client between them
C19_Witness ==
    \E k1, k2 \in RoutedWhere(MirrorSource) :
        /\ k1 < k2
        /\ IsBridge(routed[k1].event, "StateUpdate")
        /\ IsBridge(routed[k2].event, "TerminalRead")
        /\ \E n1 \in Places(routed[k1].event.id), n2 \in Places(routed[k2].event.id) :
              \E n \in 1..Len(ws_chan) :
                  /\ n1 < n /\ n < n2
                  /\ \A k \in RoutedWhere(MirrorSource) : routed[k].event.id # ws_chan[n].id

(***************************************************************************)
(* Failure of a send                                                       *)
(***************************************************************************)
\* the receivers of bridge-outbound: bridge_receiver, which the router keeps
\* for the whole loop, and the clone in each closure not yet ended
BridgeReceivers ==
    1 + Cardinality({w \in DOMAIN tasks : tasks[w] \in {"queued", "running"}})

====
